---- MODULE Spec2Model ----
(***************************************************************************)
(* PodmanCLI.run_container (tools/podman_client/podman_client.py) as a     *)
(* state machine: one run of the "run" command against a container engine. *)
(* The engine is the environment: it holds the image and the container,    *)
(* lets the container exit at a moment of its own choosing, and may reject *)
(* any operation with an error.                                            *)
(***************************************************************************)
EXTENDS Integers, Sequences, FiniteSets, TLC

VARIABLES
    req,          \* the arguments of run_container
    imageExists,  \* engine: the image reference of the request resolves
    nameTaken,    \* engine: a container with the requested name exists already
    ctr,          \* engine: the container this run created
    handle,       \* containerImage: the client-side view, refreshed by reload()
    logs,         \* the local list `logs`
    pc,           \* position of the run inside run_container
    elapsed,      \* clock ticks since the container was started
    calls,        \* operations issued to the engine, in order
    payloads,     \* what _output_success / _output_error printed, in order
    procExit,     \* the status given to sys.exit
    ret           \* the value a function called on its own returned

vars == <<req, imageExists, nameTaken, ctr, handle, logs, pc, elapsed, calls,
          payloads, procExit, ret>>

---------------------------------------------------------------------------
\* Bounds of the model
MaxTimeout == 1      \* largest --timeout value, in seconds
MaxElapsed == 4      \* the clock stops ticking here
MaxLogs    == 2      \* longest log sequence the engine hands back

\* Ticks of the clock per second: one tick is one poll interval, sleep(0.5)
TicksPerSecond == 2

\* Python's Optional: None, or a value v
None == <<>>
Some(v) == <<v>>
ValueOf(o) == o[1]

NoContainer == [phase |-> "none", exit |-> None, logs |-> <<>>, ran |-> 0]
NoHandle == [status |-> "none", exit |-> None]

TerminalPhases == {"exited", "stopped", "dead"}
ExitCodes == {0, 1, 137}
\* A log chunk is bytes; chunk 0 stands for bytes that are not valid UTF-8
LogChunks == 0 .. 2
LogSeqs == UNION {[1 .. n -> LogChunks] : n \in 0 .. MaxLogs}

---------------------------------------------------------------------------
\* The arguments main() passes for the fields the "run" command cannot set
\* or leaves at their defaults; cpus is held in thousandths of a CPU
DefaultRequest ==
    [name |-> None, detach |-> TRUE, ports |-> None, environment |-> None,
     volumes |-> None, command |-> None, auto_remove |-> TRUE,
     network_mode |-> "none", mem_limit |-> "20m", mem_swap_limit |-> Some("20m"),
     cpus_milli |-> 500, storage_opt |-> None, timeout |-> Some(5),
     working_dir |-> None, entrypoint |-> None]

\* Python truthiness of an optional string: None and "" are false
TruthyStr(o) == o # None /\ ValueOf(o) # ""
\* ... of an optional dict or list, held as a set or a sequence
TruthyDict(o) == o # None /\ ValueOf(o) # {}
TruthyList(o) == o # None /\ ValueOf(o) # <<>>
\* ... of a number
TruthyNum(n) == n # 0
TruthyOptNum(o) == o # None /\ ValueOf(o) # 0

\* int(cpus * 1e9), cpus given in thousandths of a CPU
nano_cpus(cpus_milli) == cpus_milli * 1000000

\* A keyword argument that is set only under a condition
NoParams == [k \in {} |-> None]
ParamIf(cond, key, value) == IF cond THEN (key :> value) ELSE NoParams

\* run_params that sends a placeholder name when the request has none
run_params_DefaultedName(r) ==
    [detach |-> r.detach, user |-> "root:root", auto_remove |-> FALSE,
     mem_limit |-> r.mem_limit, stderr |-> TRUE, stdout |-> TRUE,
     privileged |-> TRUE, network_mode |-> r.network_mode]
    @@ ParamIf(TruthyStr(r.entrypoint), "entrypoint", ValueOf(r.entrypoint))
    @@ ParamIf(TruthyStr(r.mem_swap_limit), "memswap_limit", ValueOf(r.mem_swap_limit))
    @@ ParamIf(TruthyNum(r.cpus_milli), "nano_cpus", nano_cpus(r.cpus_milli))
    @@ ParamIf(TruthyDict(r.storage_opt), "storage_opt", ValueOf(r.storage_opt))
    @@ ParamIf(TRUE, "name", IF r.name = None THEN "" ELSE ValueOf(r.name))
    @@ ParamIf(TruthyDict(r.ports), "ports", ValueOf(r.ports))
    @@ ParamIf(TruthyDict(r.environment), "environment", ValueOf(r.environment))
    @@ ParamIf(TruthyDict(r.volumes), "volumes", ValueOf(r.volumes))
    @@ ParamIf(TruthyList(r.command), "command", ValueOf(r.command))
    @@ ParamIf(TruthyStr(r.working_dir), "working_dir", ValueOf(r.working_dir))

\* run_params: the keyword arguments of containers.run, a function from the
\* keys that are sent to their values
run_params(r) ==
    [detach |-> r.detach, user |-> "root:root", auto_remove |-> FALSE,
     mem_limit |-> r.mem_limit, stderr |-> TRUE, stdout |-> TRUE,
     privileged |-> TRUE, network_mode |-> r.network_mode]
    @@ ParamIf(TruthyStr(r.entrypoint), "entrypoint", ValueOf(r.entrypoint))
    @@ ParamIf(TruthyStr(r.mem_swap_limit), "memswap_limit", ValueOf(r.mem_swap_limit))
    @@ ParamIf(TruthyNum(r.cpus_milli), "nano_cpus", nano_cpus(r.cpus_milli))
    @@ ParamIf(TruthyDict(r.storage_opt), "storage_opt", ValueOf(r.storage_opt))
    @@ ParamIf(TruthyStr(r.name), "name", ValueOf(r.name))
    @@ ParamIf(TruthyDict(r.ports), "ports", ValueOf(r.ports))
    @@ ParamIf(TruthyDict(r.environment), "environment", ValueOf(r.environment))
    @@ ParamIf(TruthyDict(r.volumes), "volumes", ValueOf(r.volumes))
    @@ ParamIf(TruthyList(r.command), "command", ValueOf(r.command))
    @@ ParamIf(TruthyStr(r.working_dir), "working_dir", ValueOf(r.working_dir))

\* log.decode('utf-8'): bytes to text; raises on bytes that are not UTF-8
Decodable(chunk) == chunk # 0
decode(chunk) == <<"str", chunk>>
DecodeAll(s) == [i \in 1 .. Len(s) |-> decode(s[i])]

\* attrs.get('State', {}).get('ExitCode', -1)
exit_code_of(h) == IF h.exit = None THEN -1 ELSE ValueOf(h.exit)

---------------------------------------------------------------------------
\* One operation issued to the engine
Call(op, args) == [op |-> op, args |-> args]

\* _output_success: one success payload on stdout
output_success(data) == Append(payloads, [success |-> TRUE, body |-> data])

\* _output_error: one error payload on stderr
output_error(message) ==
    Append(payloads, [success |-> FALSE, body |-> message])

\* except ImageNotFound: report and sys.exit(1)
ExceptImageNotFound ==
    /\ payloads' = output_error([kind |-> "image does not exist"])
    /\ procExit' = Some(1)
    /\ pc' = "exit"

\* except Exception: report and sys.exit(1)
ExceptException ==
    /\ payloads' = output_error([kind |-> "failed to run container"])
    /\ procExit' = Some(1)
    /\ pc' = "exit"

---------------------------------------------------------------------------
Init ==
    /\ \E n \in {None, Some("web")}, ar \in BOOLEAN, t \in 0 .. MaxTimeout :
          req = [DefaultRequest EXCEPT !.name = n, !.auto_remove = ar,
                                       !.timeout = Some(t)]
    /\ imageExists \in BOOLEAN
    /\ nameTaken \in BOOLEAN
    /\ (req.name = None => nameTaken = FALSE)
    /\ ctr = NoContainer
    /\ handle = NoHandle
    /\ logs = <<>>
    /\ pc = "get_image"
    /\ elapsed = 0
    /\ calls = <<>>
    /\ payloads = <<>>
    /\ procExit = None
    /\ ret = None

\* images.get that answers for an image that is not there
ImagesGet_NoCheck ==
    /\ pc = "get_image"
    /\ calls' = Append(calls, Call("images.get", <<>>))
    /\ pc' = "run"
    /\ UNCHANGED <<ret, req, imageExists, nameTaken, ctr, handle, logs, elapsed,
                   payloads, procExit>>

\* self.client.images.get(image): ImageNotFound when the image is missing
ImagesGet ==
    /\ pc = "get_image"
    /\ calls' = Append(calls, Call("images.get", <<>>))
    /\ \/ /\ ~imageExists
          /\ ExceptImageNotFound
       \/ /\ imageExists
          /\ pc' = "run"
          /\ UNCHANGED <<payloads, procExit>>
       \/ /\ imageExists
          /\ ExceptException
    /\ UNCHANGED <<ret, req, imageExists, nameTaken, ctr, handle, logs, elapsed>>

\* run_params = {...}; self.client.containers.run(image=imageContainer, **run_params)
\* The engine refuses a name that is in use.
ContainersRun ==
    /\ pc = "run"
    /\ calls' = Append(calls, Call("containers.run", run_params(req)))
    /\ \/ /\ ~(TruthyStr(req.name) /\ nameTaken)
          /\ ctr' = [phase |-> "running", exit |-> None, logs |-> <<>>, ran |-> 0]
          /\ handle' = [status |-> "running", exit |-> None]
          /\ pc' = "wait"
          /\ UNCHANGED <<payloads, procExit>>
       \/ /\ ExceptException
          /\ UNCHANGED <<ctr, handle>>
    /\ UNCHANGED <<ret, req, imageExists, nameTaken, logs, elapsed>>

\* Engine: the container's process ends, after running for `elapsed` ticks
EngineExit ==
    /\ ctr.phase = "running"
    /\ \E ph \in TerminalPhases, ec \in {Some(c) : c \in ExitCodes} \cup {None},
          lg \in LogSeqs :
          ctr' = [phase |-> ph, exit |-> ec, logs |-> lg, ran |-> elapsed]
    /\ UNCHANGED <<ret, req, imageExists, nameTaken, handle, logs, pc, elapsed, calls,
                   payloads, procExit>>

\* Time passes while the run is blocked in containerImage.wait()
Tick ==
    /\ pc = "wait"
    /\ elapsed < MaxElapsed
    /\ elapsed' = elapsed + 1
    /\ UNCHANGED <<ret, req, imageExists, nameTaken, ctr, handle, logs, pc, calls,
                   payloads, procExit>>

\* containerImage.wait(): returns once the container is in a terminal phase
Wait ==
    /\ pc = "wait"
    /\ \/ /\ ctr.phase \in TerminalPhases
          /\ calls' = Append(calls, Call("wait", <<>>))
          /\ pc' = "reload1"
          /\ UNCHANGED <<payloads, procExit>>
       \/ /\ calls' = Append(calls, Call("wait", <<>>))
          /\ ExceptException
    /\ UNCHANGED <<ret, req, imageExists, nameTaken, ctr, handle, logs, elapsed>>

\* containerImage.reload(), first and second call
Reload ==
    /\ pc \in {"reload1", "reload2"}
    /\ calls' = Append(calls, Call("reload", <<>>))
    /\ \/ /\ handle' = [status |-> ctr.phase, exit |-> ctr.exit]
          /\ pc' = IF pc = "reload1" THEN "logs" ELSE "classify"
          /\ UNCHANGED <<payloads, procExit>>
       \/ /\ ExceptException
          /\ UNCHANGED handle
    /\ UNCHANGED <<ret, req, imageExists, nameTaken, ctr, logs, elapsed>>

\* for log in containerImage.logs(): logs.append(log.decode('utf-8'))
Logs ==
    /\ pc = "logs"
    /\ calls' = Append(calls, Call("logs", <<>>))
    /\ \/ /\ \A i \in 1 .. Len(ctr.logs) : Decodable(ctr.logs[i])
          /\ logs' = DecodeAll(ctr.logs)
          /\ pc' = "reload2"
          /\ UNCHANGED <<payloads, procExit>>
       \/ /\ ExceptException
          /\ UNCHANGED logs
    /\ UNCHANGED <<ret, req, imageExists, nameTaken, ctr, handle, elapsed>>

\* if containerImage.status == "exited" and exit_code == 0
IsSuccess(h) == h.status = "exited" /\ exit_code_of(h) = 0

\* The exit-code check: one payload is printed, then cleanup follows
Classify ==
    /\ pc = "classify"
    /\ IF IsSuccess(handle)
         THEN /\ payloads' = output_success(
                     [status |-> handle.status, exit_code |-> exit_code_of(handle),
                      auto_remove |-> req.auto_remove, logs |-> logs])
              /\ pc' = "remove_ok"
         ELSE /\ payloads' = output_error(
                     [kind |-> "failed with exit code",
                      exit_code |-> exit_code_of(handle), logs |-> logs])
              /\ pc' = "remove_fail"
    /\ UNCHANGED <<ret, req, imageExists, nameTaken, ctr, handle, logs, elapsed, calls,
                   procExit>>

\* A cleanup that removes the container whatever auto_remove says
Remove_Always ==
    /\ pc \in {"remove_ok", "remove_fail"}
    /\ calls' = Append(calls, Call("remove", <<>>))
    /\ \/ /\ ctr' = [ctr EXCEPT !.phase = "removed"]
          /\ procExit' = Some(IF pc = "remove_ok" THEN 0 ELSE 1)
          /\ pc' = "exit"
          /\ UNCHANGED payloads
       \/ /\ ExceptException
          /\ UNCHANGED ctr
    /\ UNCHANGED <<ret, req, imageExists, nameTaken, handle, logs, elapsed>>

\* if auto_remove: containerImage.remove()  -- then sys.exit(0) or sys.exit(1)
Remove ==
    /\ pc \in {"remove_ok", "remove_fail"}
    /\ IF req.auto_remove
         THEN /\ calls' = Append(calls, Call("remove", <<>>))
              /\ \/ /\ ctr' = [ctr EXCEPT !.phase = "removed"]
                    /\ procExit' = Some(IF pc = "remove_ok" THEN 0 ELSE 1)
                    /\ pc' = "exit"
                    /\ UNCHANGED payloads
                 \/ /\ ExceptException
                    /\ UNCHANGED ctr
         ELSE /\ procExit' = Some(IF pc = "remove_ok" THEN 0 ELSE 1)
              /\ pc' = "exit"
              /\ UNCHANGED <<calls, ctr, payloads>>
    /\ UNCHANGED <<ret, req, imageExists, nameTaken, handle, logs, elapsed>>

Next ==
    \/ ImagesGet
    \/ ContainersRun
    \/ EngineExit
    \/ Tick
    \/ Wait
    \/ Reload
    \/ Logs
    \/ Classify
    \/ Remove

Spec == Init /\ [][Next]_vars

---------------------------------------------------------------------------
\* Vocabulary of the properties

\* How many times an operation was issued to the engine
Count(op) == Cardinality({i \in DOMAIN calls : calls[i].op = op})

\* The run is over: sys.exit was reached
Done == pc = "exit"

\* create+start succeeded: the engine holds the container of this run
Created == ctr.phase # "none"

\* The wait timeout of the request in clock ticks; 0 when there is none
TimeoutTicks ==
    IF TruthyOptNum(req.timeout) THEN ValueOf(req.timeout) * TicksPerSecond ELSE 0

\* The ExecutionOutcome variant a printed payload stands for
Variant(p) ==
    IF p.success THEN "Completed"
    ELSE CASE p.body.kind = "image does not exist" -> "PreconditionFailed"
           [] p.body.kind = "failed with exit code" -> "Failed"
           [] p.body.kind = "exceeded timeout" -> "TimedOut"
           [] OTHER -> "EngineError"

\* The payload printed by the exit-code check, if any
Decided(p) == p.success \/ p.body.kind = "failed with exit code"

\* The cleanup remove was issued and the engine refused it
RemoveFailed == Count("remove") >= 1 /\ ctr.phase # "removed"

\* An engine operation of the run raised an error
EngineFailed ==
    \E i \in DOMAIN payloads :
        ~payloads[i].success /\ payloads[i].body.kind = "failed to run container"

\* The container took longer than the wait timeout of the request
OutlivedTimeout ==
    /\ TimeoutTicks # 0
    /\ ctr.phase \in TerminalPhases \cup {"removed"}
    /\ ctr.ran > TimeoutTicks

---------------------------------------------------------------------------
\* C1: with a nonzero timeout the run is never still blocked in the wait
\* more than one poll interval after the timeout elapsed, and a run whose
\* container outlived the timeout ends with the TimedOut error.
C1_TimeoutHonoured ==
    /\ (pc = "wait" /\ TimeoutTicks # 0 => elapsed <= TimeoutTicks + 1)
    /\ (Done /\ OutlivedTimeout =>
            \E i \in DOMAIN payloads : Variant(payloads[i]) = "TimedOut")

\* C2: with auto_remove set and the container created, the remove
\* operation has been issued exactly once when the run ends.
C2_RemoveExactlyOnce ==
    Done /\ req.auto_remove /\ Created => Count("remove") = 1

\* C3: a run with auto_remove whose container outlives the timeout, and in
\* which no engine operation fails, ends with TimedOut as its only outcome
\* and with exactly one remove issued.
C3_TimedOutAndRemoved ==
    Done /\ req.auto_remove /\ OutlivedTimeout /\ ~EngineFailed =>
        /\ Len(payloads) = 1
        /\ Variant(payloads[1]) = "TimedOut"
        /\ Count("remove") = 1

\* C4: a failed cleanup remove leaves the decided outcome as it was:
\* nothing is printed after the decided payload, and a run decided
\* Completed still exits with status 0.
C4_CleanupFailureKeepsOutcome ==
    Done /\ RemoveFailed =>
        /\ Len(payloads) = 1
        /\ Decided(payloads[1])
        /\ (payloads[1].success => procExit = Some(0))

\* C5: a run against a missing image issues nothing to the engine but the
\* image lookup, and ends with the image-missing error and exit status 1.
C5_MissingImage ==
    ~imageExists =>
        /\ \A i \in DOMAIN calls : calls[i].op = "images.get"
        /\ (Done => /\ Len(payloads) = 1
                    /\ Variant(payloads[1]) = "PreconditionFailed"
                    /\ procExit = Some(1))

C5_Witness == ~imageExists /\ Done /\ Count("images.get") = 1

\* C6: a run whose name is already in use ends with the name-collision
\* precondition error and never issues create+start.
C6_NameCollision ==
    TruthyStr(req.name) /\ nameTaken =>
        /\ Count("containers.run") = 0
        /\ (Done /\ imageExists =>
               \E i \in DOMAIN payloads :
                   ~payloads[i].success /\ payloads[i].body.kind = "name collision")

\* C7: once the exit-code check has printed its payload, that payload is
\* the success payload exactly when the exit code is 0, whatever the
\* terminal phase; success carries exit code 0 and all the log lines, in
\* order, and failure carries the exit code (-1 when there is none).
C7_ClassifiedByExitCode ==
    payloads # <<>> /\ Decided(payloads[1]) =>
        /\ payloads[1].success <=> (exit_code_of(handle) = 0)
        /\ payloads[1].body.exit_code = exit_code_of(handle)
        /\ payloads[1].body.logs = DecodeAll(ctr.logs)

\* C8: a finished run has printed exactly one payload.
C8_ExactlyOnePayload == Done => Len(payloads) = 1

\* C9: the exit status is 0 exactly when the run produced Completed.
C9_ExitStatus ==
    Done => (procExit = Some(0) <=>
                \E i \in DOMAIN payloads : Variant(payloads[i]) = "Completed")

\* C10: with auto_remove set, the payload of the exit-code check is not
\* printed before the remove operation has been issued.
C10_RemoveBeforeResult ==
    req.auto_remove /\ payloads # <<>> /\ Decided(payloads[1]) =>
        Count("remove") >= 1

\* C11: without auto_remove no remove operation is ever issued, the engine
\* is told not to remove the container itself, and the container the run
\* created is still there whenever the run has ended.
C11_KeptWithoutAutoRemove ==
    ~req.auto_remove =>
        /\ Count("remove") = 0
        /\ \A i \in DOMAIN calls :
              calls[i].op = "containers.run" => calls[i].args.auto_remove = FALSE
        /\ (Done /\ Created => ctr.phase \in TerminalPhases \cup {"running"})

C11_Witness ==
    ~req.auto_remove /\ Done /\ Created /\ Count("reload") = 2 /\ procExit = Some(0)

---------------------------------------------------------------------------
\* The create specification: run_container up to the containers.run call,
\* over requests whose optional fields are absent, empty or set

OptNames == {None, Some(""), Some("web")}
OptEntrypoints == {None, Some(""), Some("sh")}
OptWorkingDirs == {None, Some(""), Some("/app")}
OptPorts == {None, Some({}), Some({<<"80/tcp", 8080>>})}
OptEnvironments == {None, Some({}), Some({<<"KEY", "value">>})}
OptVolumes == {None, Some({}), Some({<<"/host", "/data", "rw">>})}
OptCommands == {None, Some(<<>>), Some(<<"ls">>)}
\* --cpus, in thousandths of a CPU
CpuShares == {-500, 0, 500}

InitParams ==
    /\ \E n \in OptNames, e \in OptEntrypoints, w \in OptWorkingDirs,
          p \in OptPorts, env \in OptEnvironments, v \in OptVolumes,
          c \in OptCommands, cpu \in CpuShares :
          req = [DefaultRequest EXCEPT !.name = n, !.entrypoint = e,
                                       !.working_dir = w, !.ports = p,
                                       !.environment = env, !.volumes = v,
                                       !.command = c, !.cpus_milli = cpu]
    /\ imageExists \in BOOLEAN
    /\ nameTaken = FALSE
    /\ ctr = NoContainer
    /\ handle = NoHandle
    /\ logs = <<>>
    /\ pc = "get_image"
    /\ elapsed = 0
    /\ calls = <<>>
    /\ payloads = <<>>
    /\ procExit = None
    /\ ret = None

NextParams ==
    \/ ImagesGet
    \/ ContainersRun

SpecParams == InitParams /\ [][NextParams]_vars

\* The create specifications sent to the engine so far
CreateSpecs == {calls[i].args : i \in {j \in DOMAIN calls : calls[j].op = "containers.run"}}

\* The key is sent exactly when the field is present, and then with its value
SentIffPresent(args, key, o) ==
    /\ key \in DOMAIN args <=> o # None
    /\ key \in DOMAIN args => args[key] = ValueOf(o)

\* The key is sent exactly when the field is present and not empty
SentIffNonEmpty(args, key, o, empty) ==
    /\ key \in DOMAIN args <=> (o # None /\ ValueOf(o) # empty)
    /\ key \in DOMAIN args => args[key] = ValueOf(o)

\* C12 as stated: every optional field is in the create specification if
\* and only if it is present in the request.
C12_SentIffPresent ==
    \A a \in CreateSpecs :
        /\ SentIffPresent(a, "name", req.name)
        /\ SentIffPresent(a, "ports", req.ports)
        /\ SentIffPresent(a, "environment", req.environment)
        /\ SentIffPresent(a, "volumes", req.volumes)
        /\ SentIffPresent(a, "command", req.command)
        /\ SentIffPresent(a, "working_dir", req.working_dir)
        /\ SentIffPresent(a, "entrypoint", req.entrypoint)

\* C12 amended: every optional field is in the create specification if and
\* only if it is present in the request with a non-empty value, and then
\* with exactly that value; an absent field is never sent.
C12_SentIffNonEmpty ==
    \A a \in CreateSpecs :
        /\ SentIffNonEmpty(a, "name", req.name, "")
        /\ SentIffNonEmpty(a, "ports", req.ports, {})
        /\ SentIffNonEmpty(a, "environment", req.environment, {})
        /\ SentIffNonEmpty(a, "volumes", req.volumes, {})
        /\ SentIffNonEmpty(a, "command", req.command, <<>>)
        /\ SentIffNonEmpty(a, "working_dir", req.working_dir, "")
        /\ SentIffNonEmpty(a, "entrypoint", req.entrypoint, "")

C12_Witness ==
    /\ CreateSpecs # {}
    /\ req.name = None /\ req.ports = Some({}) /\ req.working_dir = Some("/app")
    /\ req.command = None /\ req.entrypoint = Some("")
    /\ \A a \in CreateSpecs : "working_dir" \in DOMAIN a /\ "name" \notin DOMAIN a

\* C13: a request whose CPU share is zero or negative is never sent to the
\* engine; the run ends with the invalid-constraint error.
C13_InvalidCpuRejected ==
    req.cpus_milli <= 0 =>
        /\ Count("containers.run") = 0
        /\ (Done /\ imageExists =>
               \E i \in DOMAIN payloads :
                   ~payloads[i].success /\ payloads[i].body.kind = "invalid constraint")

---------------------------------------------------------------------------
\* PodmanCLI.get_nested_value over nested mappings
\*
\* A value is a mapping (a Python dict: entries in insertion order, keys
\* distinct), a number, a string, or None.  A path string is held as the
\* list of its dot-free pieces, i.e. as path.split('.') would cut it:
\* "a..b" is the pieces "a", "", "b"; ".a" is "", "a"; "" is the one piece "".

MaxSegs == 2         \* most pieces of a path string

Scalar(n) == [tag |-> "scalar", v |-> n, items |-> <<>>]
Mapping(items) == [tag |-> "dict", v |-> 0, items |-> items]
Text(chars) == [tag |-> "str", v |-> 0, items |-> chars]
PyNone == [tag |-> "none", v |-> 0, items |-> <<>>]

\* isinstance(current, dict)
IsDict(x) == x.tag = "dict"

\* A string is the sequence of its characters: "Aa" is <<"A", "a">>
Keys == {<<"a", "a">>, <<"A", "a">>, <<"A", "A">>}
Pieces == Keys \cup {<<"x">>, <<>>}

\* str.lower, character by character
lower_char(c) == CASE c = "A" -> "a"
                   [] c = "X" -> "x"
                   [] OTHER -> c
lower(k) == [i \in DOMAIN k |-> lower_char(k[i])]

\* Python truthiness of an optional string held as a character sequence
TruthyText(o) == o # None /\ Len(ValueOf(o)) > 0

\* Key lists of a dict: up to two distinct keys, in insertion order
KeyLists ==
    {<<>>} \cup {<<k>> : k \in Keys}
           \cup {<<k[1], k[2]>> : k \in {x \in Keys \X Keys : x[1] # x[2]}}

\* Innermost mappings: every value is a scalar telling its position
InnerDicts ==
    {Mapping([i \in 1 .. Len(ks) |-> [key |-> ks[i], val |-> Scalar(i)]]) :
        ks \in KeyLists}

\* Mappings whose values are scalars (10, 20 by position) or inner mappings
OuterDicts ==
    UNION {{Mapping([i \in 1 .. Len(ks) |->
                        [key |-> ks[i],
                         val |-> IF ch[i] = PyNone THEN Scalar(10 * i) ELSE ch[i]]]) :
               ch \in [1 .. Len(ks) -> InnerDicts \cup {PyNone}]} :
           ks \in KeyLists}

InspectTargets == OuterDicts \cup {Scalar(0)}
Paths == UNION {[1 .. n -> Pieces] : n \in 1 .. MaxSegs}

\* path.strip('.'): the leading and the trailing empty pieces go
RECURSIVE DropLeadingEmpty(_)
DropLeadingEmpty(s) ==
    IF s # <<>> /\ Head(s) = <<>> THEN DropLeadingEmpty(Tail(s)) ELSE s
RECURSIVE DropTrailingEmpty(_)
DropTrailingEmpty(s) ==
    IF s # <<>> /\ s[Len(s)] = <<>> THEN DropTrailingEmpty(SubSeq(s, 1, Len(s) - 1))
    ELSE s
strip_dots(p) == DropTrailingEmpty(DropLeadingEmpty(p))

\* path.strip('.').split('.'): the empty string splits into one empty piece
split_path(p) == IF strip_dots(p) = <<>> THEN <<<<>>>> ELSE strip_dots(p)

\* Positions of the entries whose key is `key`, and whose key is `key`
\* ignoring case
ExactAt(items, key) == {i \in DOMAIN items : items[i].key = key}
FoldedAt(items, key) == {i \in DOMAIN items : lower(items[i].key) = lower(key)}

Max(S) == CHOOSE x \in S : \A y \in S : y <= x

\* mapping = {k.lower(): k for k in current.keys()}; mapping.get(key.lower()):
\* a later key overwrites an earlier one that folds to the same string
folded_target(items, key) ==
    IF FoldedAt(items, key) = {} THEN None
    ELSE Some(items[Max(FoldedAt(items, key))].key)

\* A loop body that tries the case-insensitive match before the direct one
target_entry_FoldFirst(items, key) ==
    IF TruthyText(folded_target(items, key))
      THEN CHOOSE i \in DOMAIN items :
               items[i].key = ValueOf(folded_target(items, key))
      ELSE 0

\* The entry one pass of the loop body moves to, 0 for `return None`:
\* direct match first, case-insensitive fallback second (`if target_key`)
target_entry(items, key) ==
    IF ExactAt(items, key) # {} THEN CHOOSE i \in ExactAt(items, key) : TRUE
    ELSE IF TruthyText(folded_target(items, key))
           THEN CHOOSE i \in DOMAIN items :
                    items[i].key = ValueOf(folded_target(items, key))
           ELSE 0

\* for key in keys: ...
RECURSIVE walk_keys(_, _)
walk_keys(current, keys) ==
    IF keys = <<>> THEN current
    ELSE IF ~IsDict(current) THEN PyNone
    ELSE IF target_entry(current.items, Head(keys)) = 0 THEN PyNone
    ELSE walk_keys(current.items[target_entry(current.items, Head(keys))].val,
                   Tail(keys))

get_nested_value(data, path) == walk_keys(data, split_path(path))

InitResolve ==
    /\ \E d \in InspectTargets, p \in Paths : req = [data |-> d, path |-> p]
    /\ imageExists = FALSE
    /\ nameTaken = FALSE
    /\ ctr = NoContainer
    /\ handle = NoHandle
    /\ logs = <<>>
    /\ pc = "call"
    /\ elapsed = 0
    /\ calls = <<>>
    /\ payloads = <<>>
    /\ procExit = None
    /\ ret = None

\* One call of get_nested_value(data, path)
Resolve ==
    /\ pc = "call"
    /\ ret' = Some(get_nested_value(req.data, req.path))
    /\ pc' = "returned"
    /\ UNCHANGED <<req, imageExists, nameTaken, ctr, handle, logs, elapsed, calls,
                   payloads, procExit>>

NextResolve == Resolve

SpecResolve == InitResolve /\ [][NextResolve]_vars

\* What the rule "exact key first, else a key equal ignoring case, else
\* not found" allows as the result of walking the pieces `segs` from `cur`
RECURSIVE Allowed(_, _)
Allowed(cur, segs) ==
    IF segs = <<>> THEN {cur}
    ELSE IF ~IsDict(cur) THEN {PyNone}
    ELSE IF ExactAt(cur.items, Head(segs)) # {}
           THEN UNION {Allowed(cur.items[i].val, Tail(segs)) :
                          i \in ExactAt(cur.items, Head(segs))}
    ELSE IF FoldedAt(cur.items, Head(segs)) # {}
           THEN UNION {Allowed(cur.items[i].val, Tail(segs)) :
                          i \in FoldedAt(cur.items, Head(segs))}
    ELSE {PyNone}

\* Every piece of `segs` is a key, letter for letter, on the way down from `cur`
RECURSIVE MatchesExactly(_, _)
MatchesExactly(cur, segs) ==
    \/ segs = <<>>
    \/ /\ IsDict(cur)
       /\ \E i \in ExactAt(cur.items, Head(segs)) :
              MatchesExactly(cur.items[i].val, Tail(segs))

\* The value stored under the keys `segs`, when MatchesExactly
RECURSIVE StoredAt(_, _)
StoredAt(cur, segs) ==
    IF segs = <<>> THEN cur
    ELSE StoredAt(cur.items[CHOOSE i \in ExactAt(cur.items, Head(segs)) : TRUE].val,
                  Tail(segs))

\* On the way get_nested_value takes, some piece has no exact key and two
\* or more keys that equal it ignoring case
RECURSIVE FallbackAmbiguous(_, _)
FallbackAmbiguous(cur, segs) ==
    /\ segs # <<>>
    /\ IsDict(cur)
    /\ \/ /\ ExactAt(cur.items, Head(segs)) = {}
          /\ Cardinality(FoldedAt(cur.items, Head(segs))) >= 2
       \/ /\ target_entry(cur.items, Head(segs)) # 0
          /\ FallbackAmbiguous(
                 cur.items[target_entry(cur.items, Head(segs))].val, Tail(segs))

\* C14: the result of get_nested_value is one the segment-by-segment rule
\* allows (exact key first, then a key equal ignoring case, else not found,
\* also when a non-mapping is reached with pieces left), and for a path
\* whose pieces all match keys exactly it is the value stored there.
C14_ResolveWalk ==
    pc = "returned" =>
        /\ ValueOf(ret) \in Allowed(req.data, split_path(req.path))
        /\ (MatchesExactly(req.data, split_path(req.path)) =>
               ValueOf(ret) = StoredAt(req.data, split_path(req.path)))

\* An exact two-piece path through a level that also holds a key differing
\* only in case
C14_Witness ==
    /\ pc = "returned"
    /\ Len(split_path(req.path)) = 2
    /\ MatchesExactly(req.data, split_path(req.path))
    /\ Cardinality(FoldedAt(req.data.items, split_path(req.path)[1])) = 2
    /\ ValueOf(ret).tag = "scalar"

\* C15: get_nested_value never resolves a piece through the fallback when
\* two or more keys of that level equal the piece ignoring case.
C15_UniqueFallback ==
    pc = "returned" => ~FallbackAmbiguous(req.data, split_path(req.path))

---------------------------------------------------------------------------
\* PodmanCLI.format_inspect over templates held as character sequences

MaxTemplateLen == 6      \* longest format string

TemplateChars == {"{", "}", ".", " ", "a"}
Templates == UNION {[1 .. n -> TemplateChars] : n \in 0 .. MaxTemplateLen}

\* attrs: {}, {"a": "x"} and {"A": {"a": 1}}
RenderTargets ==
    {Mapping(<<>>),
     Mapping(<<[key |-> <<"a">>, val |-> Text(<<"x">>)]>>),
     Mapping(<<[key |-> <<"A">>,
                val |-> Mapping(<<[key |-> <<"a">>, val |-> Scalar(1)]>>)]>>)}

\* \s
IsSpace(c) == c = " "

\* The text `pat` stands in `s` at position i
OccursAt(s, i, pat) ==
    /\ i >= 1
    /\ i + Len(pat) - 1 <= Len(s)
    /\ SubSeq(s, i, i + Len(pat) - 1) = pat

\* \s* from position i: the position after the run of whitespace
RECURSIVE SkipSpaces(_, _)
SkipSpaces(s, i) ==
    IF i <= Len(s) /\ IsSpace(s[i]) THEN SkipSpaces(s, i + 1) ELSE i

\* \s*\}\} from position e: the position of the last brace, 0 for no match
ClosesAt(s, e) ==
    IF OccursAt(s, SkipSpaces(s, e), <<"}", "}">>) THEN SkipSpaces(s, e) + 1 ELSE 0

\* (.*?) from position j: the least end that lets \s*\}\} follow, 0 for none
RECURSIVE LazyEnd(_, _)
LazyEnd(s, e) ==
    IF e > Len(s) + 1 THEN 0
    ELSE IF ClosesAt(s, e) # 0 THEN e
    ELSE LazyEnd(s, e + 1)

NoMatch == [start |-> 0, end |-> 0, group |-> <<>>]

\* r'\{\{\s*\.(.*?)\s*\}\}' tried at position i
MatchAt(s, i) ==
    IF ~OccursAt(s, i, <<"{", "{">>) THEN NoMatch
    ELSE IF ~OccursAt(s, SkipSpaces(s, i + 2), <<".">>) THEN NoMatch
    ELSE IF LazyEnd(s, SkipSpaces(s, i + 2) + 1) = 0 THEN NoMatch
    ELSE [start |-> i,
          end   |-> ClosesAt(s, LazyEnd(s, SkipSpaces(s, i + 2) + 1)),
          group |-> SubSeq(s, SkipSpaces(s, i + 2) + 1,
                           LazyEnd(s, SkipSpaces(s, i + 2) + 1) - 1)]

\* The matches of the pattern in s from position i on, left to right,
\* each search starting where the last match ended
RECURSIVE MatchesFrom(_, _)
MatchesFrom(s, i) ==
    IF i > Len(s) THEN <<>>
    ELSE IF MatchAt(s, i).start # 0
           THEN <<MatchAt(s, i)>> \o MatchesFrom(s, MatchAt(s, i).end + 1)
    ELSE MatchesFrom(s, i + 1)

\* re.findall(pattern, format_str): the group of every match
findall(s) == [k \in DOMAIN MatchesFrom(s, 1) |-> MatchesFrom(s, 1)[k].group]

\* str.replace(old, new), old not empty: every occurrence, left to right
RECURSIVE str_replace(_, _, _)
str_replace(s, old, new) ==
    IF Len(s) < Len(old) THEN s
    ELSE IF OccursAt(s, 1, old)
           THEN new \o str_replace(SubSeq(s, Len(old) + 1, Len(s)), old, new)
    ELSE <<Head(s)>> \o str_replace(Tail(s), old, new)

\* str.split('.'): the dot-free pieces of a string
RECURSIVE split_dots(_)
split_dots(s) ==
    IF \A i \in DOMAIN s : s[i] # "." THEN <<s>>
    ELSE LET d == CHOOSE i \in DOMAIN s :
                      s[i] = "." /\ \A j \in 1 .. i - 1 : s[j] # "."
         IN <<SubSeq(s, 1, d - 1)>> \o split_dots(SubSeq(s, d + 1, Len(s)))

\* str(n) of a number n >= 0
digit(d) == CASE d = 0 -> "0" [] d = 1 -> "1" [] d = 2 -> "2" [] d = 3 -> "3"
              [] d = 4 -> "4" [] d = 5 -> "5" [] d = 6 -> "6" [] d = 7 -> "7"
              [] d = 8 -> "8" [] OTHER -> "9"
RECURSIVE str_int(_)
str_int(n) == IF n < 10 THEN <<digit(n)>> ELSE str_int(n \div 10) \o <<digit(n % 10)>>

\* json.dumps(value), for keys and strings that need no escaping
RECURSIVE json_dumps(_)
RECURSIVE json_items(_)
json_items(items) ==
    IF items = <<>> THEN <<>>
    ELSE <<"\"">> \o Head(items).key \o <<"\"", ":", " ">>
         \o json_dumps(Head(items).val)
         \o (IF Tail(items) = <<>> THEN <<>> ELSE <<",", " ">> \o json_items(Tail(items)))
json_dumps(value) ==
    CASE value.tag = "dict" -> <<"{">> \o json_items(value.items) \o <<"}">>
      [] value.tag = "str" -> <<"\"">> \o value.items \o <<"\"">>
      [] value.tag = "scalar" -> str_int(value.v)
      [] OTHER -> <<"n", "u", "l", "l">>

\* str(value)
str_of(value) ==
    CASE value.tag = "str" -> value.items
      [] value.tag = "scalar" -> str_int(value.v)
      [] value.tag = "none" -> <<"N", "o", "n", "e">>
      [] OTHER -> json_dumps(value)

\* val_str: json.dumps(value) if isinstance(value, (list, dict)) else str(value)
val_str(value) == IF IsDict(value) THEN json_dumps(value) ELSE str_of(value)

\* f"{{{{.{p}}}}}": the placeholder text that is looked for
placeholder(p) == <<"{", "{", ".">> \o p \o <<"}", "}">>

\* for p in patterns: output = output.replace(placeholder, val_str)
RECURSIVE substitute(_, _, _)
substitute(attrs, output, patterns) ==
    IF patterns = <<>> THEN output
    ELSE substitute(attrs,
                    str_replace(output, placeholder(Head(patterns)),
                                val_str(get_nested_value(attrs,
                                                         split_dots(Head(patterns))))),
                    Tail(patterns))

\* A format_inspect that hands its output back stripped of outer whitespace
RECURSIVE TrimSpaces(_)
TrimSpaces(s) ==
    IF s # <<>> /\ IsSpace(Head(s)) THEN TrimSpaces(Tail(s))
    ELSE IF s # <<>> /\ IsSpace(s[Len(s)]) THEN TrimSpaces(SubSeq(s, 1, Len(s) - 1))
    ELSE s
format_inspect_Trimmed(attrs, format_str) ==
    TrimSpaces(substitute(attrs, format_str, findall(format_str)))

format_inspect(attrs, format_str) ==
    substitute(attrs, format_str, findall(format_str))

InitRender ==
    /\ \E d \in RenderTargets, t \in Templates : req = [attrs |-> d, format_str |-> t]
    /\ imageExists = FALSE
    /\ nameTaken = FALSE
    /\ ctr = NoContainer
    /\ handle = NoHandle
    /\ logs = <<>>
    /\ pc = "call"
    /\ elapsed = 0
    /\ calls = <<>>
    /\ payloads = <<>>
    /\ procExit = None
    /\ ret = None

\* One call of format_inspect(attrs, format_str)
Render ==
    /\ pc = "call"
    /\ ret' = Some(format_inspect(req.attrs, req.format_str))
    /\ pc' = "returned"
    /\ UNCHANGED <<req, imageExists, nameTaken, ctr, handle, logs, elapsed, calls,
                   payloads, procExit>>

NextRender == Render

SpecRender == InitRender /\ [][NextRender]_vars

\* The text `pat` occurs somewhere in `s`
Occurs(s, pat) == \E i \in 1 .. Len(s) : OccursAt(s, i, pat)

\* s holds a {{.path}} token: two opening braces, whitespace or nothing, a
\* dot, and two closing braces somewhere after the dot
HasPlaceholder(s) ==
    \E i \in 1 .. Len(s), j \in 1 .. Len(s), e \in 1 .. Len(s) :
        /\ i + 2 <= j /\ j < e
        /\ s[i] = "{" /\ s[i + 1] = "{"
        /\ \A k \in i + 2 .. j - 1 : s[k] = " "
        /\ s[j] = "."
        /\ e + 1 <= Len(s) /\ s[e] = "}" /\ s[e + 1] = "}"

\* C16: no placeholder text the pattern matches in the template is left in
\* the output of format_inspect.
C16_EveryMatchReplaced ==
    pc = "returned" =>
        \A k \in DOMAIN MatchesFrom(req.format_str, 1) :
            ~Occurs(ValueOf(ret),
                    SubSeq(req.format_str, MatchesFrom(req.format_str, 1)[k].start,
                           MatchesFrom(req.format_str, 1)[k].end))

\* C17: on a template without a {{.path}} token format_inspect returns the
\* template itself, unmatched and unrelated braces included.
C17_IdentityWithoutPlaceholder ==
    pc = "returned" /\ ~HasPlaceholder(req.format_str) =>
        ValueOf(ret) = req.format_str

\* A template with braces and a dot but no token, e.g. " {{a}}"
C17_Witness ==
    /\ pc = "returned"
    /\ ~HasPlaceholder(req.format_str)
    /\ Occurs(req.format_str, <<"{", "{">>)
    /\ Occurs(req.format_str, <<"}", "}">>)
    /\ IsSpace(Head(req.format_str))
    /\ ValueOf(ret) = req.format_str

---------------------------------------------------------------------------
\* The "kill", "rmi" and "build" commands of main(): kill_container,
\* delete_image with image_exists, and the --force dispatch with build_image

Signals == {"SIGKILL", "SIGTERM"}
BuildLogEntries == {"stream", "error", "other"}
BuildLogSeqs == UNION {[1 .. n -> BuildLogEntries] : n \in 0 .. MaxLogs}

\* What argparse hands to main() for one command; the fields a command does
\* not have stay at None / FALSE
CmdRequest(command, tag, force, platform, buildargs, signal) ==
    [command |-> command, tag |-> tag, force |-> force, platform |-> platform,
     buildargs |-> buildargs, signal |-> signal]

KillRequests ==
    {CmdRequest("kill", None, FALSE, None, None, Some(s)) : s \in Signals}
RmRequests ==
    {CmdRequest("rm", None, f, None, None, None) : f \in BOOLEAN}
RmiRequests ==
    {CmdRequest("rmi", Some("app"), f, None, None, None) : f \in BOOLEAN}
BuildRequests ==
    {CmdRequest("build", t, f, p, b, None) :
        t \in {None, Some("app")}, f \in BOOLEAN,
        p \in {None, Some("linux/arm64")}, b \in {None, Some({"K=V"})}}

\* A container the engine already holds when "kill" is called
RunningContainer == [NoContainer EXCEPT !.phase = "running"]
ExitedContainer == [NoContainer EXCEPT !.phase = "exited", !.exit = Some(0)]

InitCmd ==
    /\ req \in KillRequests \cup RmRequests \cup RmiRequests \cup BuildRequests
    /\ imageExists \in BOOLEAN
    /\ (req.command \in {"kill", "rm"} => imageExists = FALSE)
    /\ nameTaken = FALSE
    /\ ctr \in {NoContainer, RunningContainer, ExitedContainer}
    /\ (req.command \notin {"kill", "rm"} => ctr = NoContainer)
    /\ handle = NoHandle
    /\ logs = <<>>
    /\ pc = req.command
    /\ elapsed = 0
    /\ calls = <<>>
    /\ payloads = <<>>
    /\ procExit = None
    /\ ret = None

\* Python truthiness of what the last call returned: None is false
TruthyRet == ret # None /\ ValueOf(ret) = TRUE

\* container_exists: True when containers.get answers, False on any exception
ContainerExists ==
    /\ pc \in {"kill", "rm"}
    /\ calls' = Append(calls, Call("containers.get", <<>>))
    /\ \E answered \in BOOLEAN : ret' = Some(Created /\ answered)
    /\ pc' = IF pc = "kill" THEN "kill_container" ELSE "delete_container"
    /\ UNCHANGED <<req, imageExists, nameTaken, ctr, handle, logs, elapsed,
                   payloads, procExit>>

\* kill_container: if not self.container_exists(...): error, return;
\* container = self.client.containers.get(container_id)
ContainersGet ==
    /\ pc = "kill_container"
    /\ IF ~TruthyRet
         THEN /\ payloads' = output_error([kind |-> "Container does not exist."])
              /\ pc' = "done"
              /\ UNCHANGED <<calls, handle>>
         ELSE /\ calls' = Append(calls, Call("containers.get", <<>>))
              /\ \E answered \in BOOLEAN :
                    IF Created /\ answered
                      THEN /\ handle' = [status |-> ctr.phase, exit |-> ctr.exit]
                           /\ pc' = "container.kill"
                           /\ UNCHANGED payloads
                      ELSE /\ payloads' =
                                 output_error([kind |-> "Failed to kill container"])
                           /\ pc' = "done"
                           /\ UNCHANGED handle
    /\ UNCHANGED <<ret, req, imageExists, nameTaken, ctr, logs, elapsed, procExit>>

\* The status a container killed by a signal exits with
signal_status(s) == IF s = "SIGKILL" THEN 137 ELSE 143

\* A kill that is sent again when the engine rejects it
ContainerKill_Retry ==
    /\ pc = "container.kill"
    /\ calls' = Append(calls, Call("kill", [signal |-> ValueOf(req.signal)]))
    /\ \E accepted \in BOOLEAN :
          IF accepted /\ ctr.phase = "running"
            THEN /\ ctr' = [ctr EXCEPT !.phase = "exited",
                                       !.exit = Some(signal_status(ValueOf(req.signal)))]
                 /\ payloads' = output_success([kind |-> "Container killed with signal"])
                 /\ pc' = "done"
            ELSE /\ ctr' = ctr
                 /\ IF Count("kill") = 0
                      THEN pc' = "container.kill" /\ UNCHANGED payloads
                      ELSE /\ payloads' =
                                 output_error([kind |-> "Failed to kill container"])
                           /\ pc' = "done"
    /\ UNCHANGED <<ret, req, imageExists, nameTaken, handle, logs, elapsed, procExit>>

\* container.kill(signal=signal), then the success payload; an engine error
\* goes to `except Exception`
ContainerKill ==
    /\ pc = "container.kill"
    /\ calls' = Append(calls, Call("kill", [signal |-> ValueOf(req.signal)]))
    /\ \E accepted \in BOOLEAN :
          IF accepted /\ ctr.phase = "running"
            THEN /\ ctr' = [ctr EXCEPT !.phase = "exited",
                                       !.exit = Some(signal_status(ValueOf(req.signal)))]
                 /\ payloads' = output_success([kind |-> "Container killed with signal"])
            ELSE /\ ctr' = ctr
                 /\ payloads' = output_error([kind |-> "Failed to kill container"])
    /\ pc' = "done"
    /\ UNCHANGED <<ret, req, imageExists, nameTaken, handle, logs, elapsed, procExit>>

\* delete_container: if not self.container_exists(...): error, return;
\* container = self.client.containers.get(container_id)
DeleteContainerGet ==
    /\ pc = "delete_container"
    /\ IF ~TruthyRet
         THEN /\ payloads' = output_error([kind |-> "Container does not exist."])
              /\ pc' = "done"
              /\ UNCHANGED <<calls, handle>>
         ELSE /\ calls' = Append(calls, Call("containers.get", <<>>))
              /\ \E answered \in BOOLEAN :
                    IF Created /\ answered
                      THEN /\ handle' = [status |-> ctr.phase, exit |-> ctr.exit]
                           /\ pc' = "container.remove"
                           /\ UNCHANGED payloads
                      ELSE /\ payloads' =
                                 output_error([kind |-> "Failed to delete container"])
                           /\ pc' = "done"
                           /\ UNCHANGED handle
    /\ UNCHANGED <<ret, req, imageExists, nameTaken, ctr, logs, elapsed, procExit>>

\* container.remove(force=force), then the success payload; the engine
\* refuses to remove a running container unless forced
ContainerRemove ==
    /\ pc = "container.remove"
    /\ calls' = Append(calls, Call("remove", [force |-> req.force]))
    /\ \E accepted \in BOOLEAN :
          IF accepted /\ (ctr.phase # "running" \/ req.force)
            THEN /\ ctr' = [ctr EXCEPT !.phase = "removed"]
                 /\ payloads' = output_success([kind |-> "Container deleted successfully"])
            ELSE /\ ctr' = ctr
                 /\ payloads' = output_error([kind |-> "Failed to delete container"])
    /\ pc' = "done"
    /\ UNCHANGED <<ret, req, imageExists, nameTaken, handle, logs, elapsed, procExit>>

\* Where image_exists is called from, and where its caller goes on
ImageExistsCallers == {"rmi", "build:image_exists", "build:delete_image"}
AfterImageExists(at) ==
    CASE at = "rmi" -> "delete_image"
      [] at = "build:image_exists" -> "build:forced"
      [] OTHER -> "build:delete_image:checked"

\* image_exists: prints a payload either way and has no return statement
ImageExists ==
    /\ pc \in ImageExistsCallers
    /\ calls' = Append(calls, Call("images.get", <<>>))
    /\ \E answered \in BOOLEAN :
          payloads' = IF imageExists /\ answered
                        THEN output_success([kind |-> "True"])
                        ELSE output_error([kind |-> "Image does not exist"])
    /\ ret' = None
    /\ pc' = AfterImageExists(pc)
    /\ UNCHANGED <<req, imageExists, nameTaken, ctr, handle, logs, elapsed, procExit>>

\* delete_image after its call of image_exists: `if not self.image_exists(...)`
\* reports and returns, otherwise images.remove and the success payload
DeleteImage ==
    /\ pc \in {"delete_image", "build:delete_image:checked"}
    /\ IF ~TruthyRet
         THEN /\ payloads' = output_error([kind |-> "Image does not exist."])
              /\ UNCHANGED <<calls, imageExists>>
         ELSE /\ calls' = Append(calls, Call("images.remove", [force |-> req.force]))
              /\ \E answered \in BOOLEAN :
                    IF imageExists /\ answered
                      THEN /\ imageExists' = FALSE
                           /\ payloads' =
                                 output_success([kind |-> "Image deleted successfully"])
                      ELSE /\ imageExists' = imageExists
                           /\ payloads' =
                                 output_error([kind |-> "Failed to delete image"])
    /\ pc' = IF pc = "delete_image" THEN "done" ELSE "build_image"
    /\ UNCHANGED <<ret, req, nameTaken, ctr, handle, logs, elapsed, procExit>>

\* main, "build": `args.force and args.tag and ...` up to the call of
\* image_exists
MainBuild ==
    /\ pc = "build"
    /\ pc' = IF req.force /\ TruthyStr(req.tag) THEN "build:image_exists"
             ELSE "build_image"
    /\ UNCHANGED <<ret, req, imageExists, nameTaken, ctr, handle, logs, elapsed,
                   calls, payloads, procExit>>

\* main, "build": `... and cli.image_exists(args.tag)` decides whether
\* delete_image is called before build_image
MainBuildForced ==
    /\ pc = "build:forced"
    /\ pc' = IF TruthyRet THEN "build:delete_image" ELSE "build_image"
    /\ UNCHANGED <<ret, req, imageExists, nameTaken, ctr, handle, logs, elapsed,
                   calls, payloads, procExit>>

\* build_image: if self.client.images.exists(tag): "Image already exists"
ImagesExists ==
    /\ pc = "build_image"
    /\ calls' = Append(calls, Call("images.exists", <<>>))
    /\ \E answered \in BOOLEAN :
          IF ~answered
            THEN /\ payloads' = output_error([kind |-> "Failed to build image"])
                 /\ pc' = "done"
            ELSE IF req.tag # None /\ imageExists
            THEN /\ payloads' = output_success([kind |-> "Image already exists"])
                 /\ pc' = "done"
            ELSE /\ payloads' = payloads
                 /\ pc' = IF TruthyStr(req.platform) THEN "images.build"
                          ELSE "get_arch_platform"
    /\ UNCHANGED <<ret, req, imageExists, nameTaken, ctr, handle, logs, elapsed,
                   procExit>>

\* get_arch_platform: os/arch of the host, "linux/amd64" after an error
GetArchPlatform ==
    /\ pc = "get_arch_platform"
    /\ calls' = Append(calls, Call("info", <<>>))
    /\ \/ /\ \E host \in {"linux/amd64", "linux/arm64"} : ret' = Some(host)
          /\ UNCHANGED payloads
       \/ /\ ret' = Some("linux/amd64")
          /\ payloads' =
                output_error([kind |-> "Failed to get architecture platform"])
    /\ pc' = "images.build"
    /\ UNCHANGED <<req, imageExists, nameTaken, ctr, handle, logs, elapsed, procExit>>

\* The local `platform` after `if not platform: platform = ...`
build_platform(r, detected) == IF TruthyStr(r.platform) THEN r.platform ELSE detected

\* build_params: the platform is passed only when it was auto-detected
build_params(r, detected) ==
    ("path" :> "." @@ "dockerfile" :> "Dockerfile" @@ "tag" :> r.tag
       @@ "rm" :> TRUE @@ "nocache" :> FALSE)
    @@ ParamIf(~TruthyStr(r.platform), "platform", detected)
    @@ ParamIf(TruthyDict(r.buildargs), "buildargs", r.buildargs)

\* Position of the first {"error": ...} entry of the build logs, 0 for none
FirstError(ls) ==
    IF \A i \in DOMAIN ls : ls[i] # "error" THEN 0
    ELSE CHOOSE i \in DOMAIN ls : ls[i] = "error" /\ \A j \in 1 .. i - 1 : ls[j] # "error"

IsStream(e) == e = "stream"

\* images.build(**build_params), the loop over build_logs and the payload
ImagesBuild ==
    /\ pc = "images.build"
    /\ calls' = Append(calls, Call("images.build", build_params(req, ret)))
    /\ \/ /\ payloads' = output_error([kind |-> "Failed to build image"])
          /\ UNCHANGED <<imageExists, logs>>
       \/ \E ls \in BuildLogSeqs :
             /\ imageExists' = IF req.tag # None THEN TRUE ELSE imageExists
             /\ IF FirstError(ls) # 0
                  THEN /\ logs' = SelectSeq(SubSeq(ls, 1, FirstError(ls) - 1), IsStream)
                       /\ payloads' = output_error([kind |-> "Build failed"])
                  ELSE /\ logs' = SelectSeq(ls, IsStream)
                       /\ payloads' = output_success(
                              [kind |-> "image_id",
                               platform |-> build_platform(req, ret)])
    /\ pc' = "done"
    /\ UNCHANGED <<ret, req, nameTaken, ctr, handle, elapsed, procExit>>

\* main() returns after the command's method did: the interpreter ends with
\* status 0
MainReturn ==
    /\ pc = "done"
    /\ procExit' = Some(0)
    /\ pc' = "exit"
    /\ UNCHANGED <<ret, req, imageExists, nameTaken, ctr, handle, logs, elapsed,
                   calls, payloads>>

NextCmd ==
    \/ ContainerExists
    \/ ContainersGet
    \/ ContainerKill
    \/ DeleteContainerGet
    \/ ContainerRemove
    \/ MainReturn
    \/ ImageExists
    \/ DeleteImage
    \/ MainBuild
    \/ MainBuildForced
    \/ ImagesExists
    \/ GetArchPlatform
    \/ ImagesBuild

SpecCmd == InitCmd /\ [][NextCmd]_vars

\* The command is over
CmdDone == pc = "done"

\* Some payload of the given kind was printed
Printed(kind) == \E i \in DOMAIN payloads : payloads[i].body.kind = kind

\* Both lookups of kill_container found the container
LookupsAnswered == TruthyRet /\ handle # NoHandle

C19_DeleteExistingImage ==
    req.command = "rmi" /\ CmdDone /\ Printed("True") =>
        /\ Count("images.remove") = 1
        /\ ~Printed("Image does not exist.")

\* C20: build --force with a tag whose image exists (image_exists found it)
\* removes the image before it builds, and does not end with "Image already
\* exists", as long as the engine raises no error during the build.
C20_ForceRebuilds ==
    req.command = "build" /\ req.force /\ TruthyStr(req.tag) /\ CmdDone
        /\ Printed("True") /\ ~Printed("Failed to build image") =>
            /\ ~Printed("Image already exists")
            /\ Count("images.remove") = 1
            /\ \A i \in DOMAIN calls :
                  calls[i].op = "images.build" =>
                      \E k \in 1 .. i - 1 : calls[k].op = "images.remove"

\* C21: every images.build call carries the target platform, the caller's
\* when one is given and the detected one otherwise, and the success payload
\* reports the platform that was sent.
C21_PlatformSent ==
    req.command = "build" =>
        /\ \A i \in DOMAIN calls :
              calls[i].op = "images.build" =>
                  /\ "platform" \in DOMAIN calls[i].args
                  /\ calls[i].args["platform"] = build_platform(req, ret)
        /\ \A k \in DOMAIN payloads :
              payloads[k].body.kind = "image_id" =>
                  \E i \in DOMAIN calls :
                      /\ calls[i].op = "images.build"
                      /\ "platform" \in DOMAIN calls[i].args
                      /\ calls[i].args["platform"] = payloads[k].body.platform

\* C22: a command that printed an error payload ends with a nonzero exit
\* status, and a command that ends with status 0 printed a success payload.
C22_ErrorMeansNonzeroExit ==
    Done =>
        /\ (\E i \in DOMAIN payloads : ~payloads[i].success) => procExit # Some(0)
        /\ procExit = Some(0) => \E i \in DOMAIN payloads : payloads[i].success

---------------------------------------------------------------------------
\* format_inspect on templates put together from placeholders, for values
\* that hold placeholder text themselves

MaxPieces == 3       \* most pieces a template is put together from

\* "{{.a}}", "{{.}}", "{{ .a}}", "a" and "}"
TemplatePieces ==
    {placeholder(<<"a">>), placeholder(<<>>),
     <<"{", "{", " ", ".", "a", "}", "}">>, <<"a">>, <<"}">>}

RECURSIVE Flatten(_)
Flatten(ps) == IF ps = <<>> THEN <<>> ELSE Head(ps) \o Flatten(Tail(ps))

PieceTemplates ==
    {Flatten(ps) : ps \in UNION {[1 .. n -> TemplatePieces] : n \in 0 .. MaxPieces}}

\* attrs: {}, {"a": "x"}, {"a": "{{.a}}a"} and {"a": "{{.}}", "": "x"}
SubstituteTargets ==
    {Mapping(<<>>),
     Mapping(<<[key |-> <<"a">>, val |-> Text(<<"x">>)]>>),
     Mapping(<<[key |-> <<"a">>, val |-> Text(placeholder(<<"a">>) \o <<"a">>)]>>),
     Mapping(<<[key |-> <<"a">>, val |-> Text(placeholder(<<>>))],
               [key |-> <<>>, val |-> Text(<<"x">>)]>>)}

InitSubstitute ==
    /\ \E d \in SubstituteTargets, t \in PieceTemplates :
          req = [attrs |-> d, format_str |-> t]
    /\ imageExists = FALSE
    /\ nameTaken = FALSE
    /\ ctr = NoContainer
    /\ handle = NoHandle
    /\ logs = <<>>
    /\ pc = "call"
    /\ elapsed = 0
    /\ calls = <<>>
    /\ payloads = <<>>
    /\ procExit = None
    /\ ret = None

SpecSubstitute == InitSubstitute /\ [][NextRender]_vars

\* The template with each match, from position `pos` on, replaced once by
\* the rendering of its own path
RECURSIVE ReplacedOnce(_, _, _, _)
ReplacedOnce(attrs, s, matches, pos) ==
    IF matches = <<>> THEN SubSeq(s, pos, Len(s))
    ELSE SubSeq(s, pos, Head(matches).start - 1)
         \o val_str(get_nested_value(attrs, split_dots(Head(matches).group)))
         \o ReplacedOnce(attrs, s, Tail(matches), Head(matches).end + 1)

\* Every placeholder of the template is written without whitespace
WrittenPlainly(s) ==
    \A k \in DOMAIN MatchesFrom(s, 1) :
        SubSeq(s, MatchesFrom(s, 1)[k].start, MatchesFrom(s, 1)[k].end)
            = placeholder(MatchesFrom(s, 1)[k].group)

\* C23: for a template whose placeholders are written without whitespace,
\* the output of format_inspect is the template with each placeholder
\* occurrence replaced once by its own rendering; substituted text is not
\* rewritten.
C23_SimultaneousReplacement ==
    pc = "returned" /\ WrittenPlainly(req.format_str) =>
        ValueOf(ret) = ReplacedOnce(req.attrs, req.format_str,
                                    MatchesFrom(req.format_str, 1), 1)

---------------------------------------------------------------------------
\* PodmanCLI._wait_for_container_exit: the polling wait, called on its own
\* for a container the engine holds.  The clock moves in the sleep between
\* two polls; one tick is one poll interval.

WaitTimeouts == {None} \cup {Some(t) : t \in 0 .. MaxTimeout}

InitWait ==
    /\ \E t \in WaitTimeouts, ar \in BOOLEAN :
          req = [DefaultRequest EXCEPT !.timeout = t, !.auto_remove = ar]
    /\ imageExists = TRUE
    /\ nameTaken = FALSE
    /\ ctr \in {RunningContainer, ExitedContainer}
    /\ handle = NoHandle
    /\ logs = <<>>
    /\ pc = "wait:poll"
    /\ elapsed = 0
    /\ calls = <<>>
    /\ payloads = <<>>
    /\ procExit = None
    /\ ret = None

\* A poll that looks at the timeout before it looks at the status
WaitPoll_TimeoutFirst ==
    /\ pc = "wait:poll"
    /\ calls' = Append(calls, Call("reload", <<>>))
    /\ \/ /\ handle' = [status |-> ctr.phase, exit |-> ctr.exit]
          /\ IF TruthyOptNum(req.timeout) /\ elapsed >= TimeoutTicks
               THEN /\ payloads' = output_error([kind |-> "exceeded timeout"])
                    /\ ret' = Some(FALSE)
                    /\ pc' = "returned"
               ELSE IF ctr.phase \in TerminalPhases
               THEN /\ ret' = Some(TRUE)
                    /\ pc' = "returned"
                    /\ UNCHANGED payloads
               ELSE /\ pc' = "wait:sleep"
                    /\ UNCHANGED <<ret, payloads>>
       \/ /\ pc' = "raised"
          /\ UNCHANGED <<handle, ret, payloads>>
    /\ UNCHANGED <<req, imageExists, nameTaken, ctr, logs, elapsed, procExit>>

\* One pass of `while True` up to the sleep: container.reload(), the
\* terminal check, then the timeout check; an error of reload() leaves the
\* function as an exception
WaitPoll ==
    /\ pc = "wait:poll"
    /\ calls' = Append(calls, Call("reload", <<>>))
    /\ \/ /\ handle' = [status |-> ctr.phase, exit |-> ctr.exit]
          /\ IF ctr.phase \in TerminalPhases
               THEN /\ ret' = Some(TRUE)
                    /\ pc' = "returned"
                    /\ UNCHANGED payloads
               ELSE IF TruthyOptNum(req.timeout) /\ elapsed >= TimeoutTicks
               THEN /\ payloads' = output_error([kind |-> "exceeded timeout"])
                    /\ ret' = Some(FALSE)
                    /\ pc' = "returned"
               ELSE /\ pc' = "wait:sleep"
                    /\ UNCHANGED <<ret, payloads>>
       \/ /\ pc' = "raised"
          /\ UNCHANGED <<handle, ret, payloads>>
    /\ UNCHANGED <<req, imageExists, nameTaken, ctr, logs, elapsed, procExit>>

\* time.sleep(0.5)
WaitSleep ==
    /\ pc = "wait:sleep"
    /\ elapsed < MaxElapsed
    /\ elapsed' = elapsed + 1
    /\ pc' = "wait:poll"
    /\ UNCHANGED <<ret, req, imageExists, nameTaken, ctr, handle, logs, calls,
                   payloads, procExit>>

NextWait ==
    \/ EngineExit
    \/ WaitPoll
    \/ WaitSleep

\* The caller's thread is scheduled: a poll or a sleep that can be taken is
\* taken; nothing makes the container exit
SpecWait ==
    InitWait /\ [][NextWait]_vars /\ WF_vars(WaitPoll) /\ WF_vars(WaitSleep)

\* The wait is over: it returned, or reload() raised
WaitOver == pc \in {"returned", "raised"}

\* One poll interval in clock ticks
PollTicks == 1

\* What holds in every state of the wait
WaitContract ==
    /\ ret = Some(TRUE) =>
          Count("reload") >= 1 /\ handle.status \in TerminalPhases
    /\ ret = Some(FALSE) =>
          /\ TruthyOptNum(req.timeout)
          /\ handle.status \notin TerminalPhases
          /\ elapsed >= TimeoutTicks
    /\ pc = "returned" /\ handle.status \in TerminalPhases => ret = Some(TRUE)
    /\ TruthyOptNum(req.timeout) /\ ~WaitOver => elapsed <= TimeoutTicks
    /\ TruthyOptNum(req.timeout) /\ WaitOver => elapsed <= TimeoutTicks + PollTicks
    /\ ~TruthyOptNum(req.timeout) /\ pc = "returned" =>
          ret = Some(TRUE) /\ ctr.phase \in TerminalPhases

\* C24: the wait returns True only after a poll saw a terminal status and
\* False only at a poll with a non-terminal status at or after a nonzero
\* timeout, the terminal check coming first; with a nonzero timeout it is
\* over within one poll interval after the timeout, and without one it
\* returns only for a terminal container.
C24_WaitContract ==
    /\ []WaitContract
    /\ (TruthyOptNum(req.timeout) => <>WaitOver)

\* The container is found terminal at the poll where the timeout has elapsed
C24_Witness ==
    /\ pc = "returned"
    /\ TruthyOptNum(req.timeout)
    /\ elapsed >= TimeoutTicks
    /\ ctr.ran > 0
    /\ ret = Some(TRUE)

====
